---- MODULE Spec2Model ----
(***************************************************************************)
(* Model of src/bluetooth_audio.py: class BluetoothAudio.                  *)
(*                                                                         *)
(* Three threads share the object's fields without synchronisation:        *)
(*   - the worker thread (_worker_loop, started by __init__),              *)
(*   - an application thread calling read / write / is_connected,          *)
(*   - an application thread calling close.                                *)
(* The Bluetooth host stack (find_service, connect, recv, send, MTU) and   *)
(* the clock are the environment: their results are chosen with \E.        *)
(***************************************************************************)
EXTENDS Integers, Sequences, FiniteSets, TLC

(***************************************************************************)
(* Program constants.                                                      *)
(***************************************************************************)
SCO_HEADERS_SIZE == 16
AUDIO_8KHZ_SIGNED_8BIT_MONO == 0
AUDIO_16KHZ_SIGNED_16BIT_LE_MONO == 1

(***************************************************************************)
(* Bounds of the model.                                                    *)
(***************************************************************************)
\* the largest audio payload size explored (the smallest is -1)
MtuSpan == 3
\* longest native payload handed to write in the framing specification
MaxLen == 4
\* longest payload handed to write while the worker runs concurrently
MaxLenMain == 1
MaxLenConv == 5
MaxBeepMs == 2
\* pieces of Commands per received control chunk in the AT specification
MaxCmds == 1
\* service records per find_service answer in the resolution specification
MaxRecords == 2
\* ports a service record can carry are 0..MaxPort
MaxPort == 2
\* audio sockets dropped without close are counted up to MaxLeaked
MaxLeaked == 1
\* close() is called at most MaxCloseCalls times
MaxCloseCalls == 2
\* frames logged per write (a write that makes no progress sends without end)
MaxFrames == 5

\* Optional values: None is the empty tuple, a present value x is <<x>>
None == <<>>
Some(x) == <<x>>
Val(o) == o[1]

(***************************************************************************)
(* Bytes of the control channel, one element per byte.  "0xFF" stands for  *)
(* a byte that is not valid UTF-8.                                         *)
(***************************************************************************)
AT_BRSF == <<"A","T","+","B","R","S","F","=">>
AT_CIND_TEST == <<"A","T","+","C","I","N","D","=","?","\r">>
AT_CIND_READ == <<"A","T","+","C","I","N","D","?","\r">>
AT_CMER == <<"A","T","+","C","M","E","R","=">>
AT_CHLD_TEST == <<"A","T","+","C","H","L","D","=","?","\r">>
RSP_BRSF == <<"+","B","R","S","F",":"," ","0">>
RSP_CIND_TEST == <<"+","C","I","N","D",":"," ","(","\"","s","e","r","v","i","c","e","\"",",","(","0",",","1",")",")",",","(","\"","c","a","l","l","\"",",","(","0",",","1",")",")">>
RSP_CIND_READ == <<"+","C","I","N","D",":"," ","1",",","0">>
RSP_CHLD == <<"+","C","H","L","D",":"," ","0">>
RSP_OK == <<"O","K">>
RSP_ERROR == <<"E","R","R","O","R">>
CRLF == <<"\r","\n">>

\* chunks a peer can deliver in one receive
CmdBRSF == <<"A","T","+","B","R","S","F","=","0","\r">>
CmdCMER == <<"A","T","+","C","M","E","R","=","3",",","0",",","0",",","1","\r">>
CmdFOO == <<"A","T","+","F","O","O","\r">>
CmdBAD == <<"0xFF">>
\* two commands delivered in one receive
CmdBRSFCMER == CmdBRSF \o CmdCMER

Commands == {CmdBRSF, AT_CIND_TEST, AT_CIND_READ, CmdCMER, AT_CHLD_TEST, CmdFOO, CmdBAD,
             CmdBRSFCMER}

RECURSIVE ChunksOf(_)
ChunksOf(n) ==
  IF n = 0 THEN {<<>>}
  ELSE ChunksOf(n - 1) \cup {c \o d : c \in Commands, d \in ChunksOf(n - 1)}

\* every concatenation of at most MaxCmds commands (the empty chunk included)
Chunks == ChunksOf(MaxCmds)

\* chunks delivered while the application threads run concurrently
MainChunks == {<<>>, CmdCMER, CmdFOO, CmdBAD}

\* pat in data (bytes.__contains__)
Contains(pat, d) ==
  \E i \in 1..(Len(d) - Len(pat) + 1) : SubSeq(d, i, i + Len(pat) - 1) = pat

\* bytes.decode('utf8') succeeds
Utf8Valid(d) == \A i \in 1..Len(d) : d[i] # "0xFF"

\* _send_at: the frame put on the wire for a response
SendAt(rsp) == CRLF \o rsp \o CRLF

\* the if / elif chain of _parse_channel, lines 66-84
BranchOf(d) ==
  IF Contains(AT_BRSF, d) THEN "BRSF"
  ELSE IF d = AT_CIND_TEST THEN "CIND_TEST"
  ELSE IF d = AT_CIND_READ THEN "CIND_READ"
  ELSE IF Contains(AT_CMER, d) THEN "CMER"
  ELSE IF d = AT_CHLD_TEST THEN "CHLD"
  ELSE "ERROR"

\* the frames the chosen branch sends, in order (_send_at / _send_ok / _send_error)
BranchFrames(b) ==
  CASE b = "BRSF" -> <<SendAt(RSP_BRSF), SendAt(RSP_OK)>>
    [] b = "CIND_TEST" -> <<SendAt(RSP_CIND_TEST), SendAt(RSP_OK)>>
    [] b = "CIND_READ" -> <<SendAt(RSP_CIND_READ), SendAt(RSP_OK)>>
    [] b = "CMER" -> <<SendAt(RSP_OK)>>
    [] b = "CHLD" -> <<SendAt(RSP_CHLD), SendAt(RSP_OK)>>
    [] OTHER -> <<SendAt(RSP_ERROR)>>

(***************************************************************************)
(* Channel resolution (_find_channel).                                     *)
(***************************************************************************)
HANDSFREE_CLASS == "111E"
HEADSET_CLASS == "1108"
GENERIC_AUDIO_CLASS == "1203"
\* a class the resolver does not know (audio sink)
OTHER_CLASS == "110B"

\* str.lower() on the class identifiers that occur
Lower(c) ==
  CASE c = "111E" -> "111e"
    [] c = "110B" -> "110b"
    [] OTHER -> c

\* the "service-classes" lists a service record can carry
ClassLists ==
  {<<>>, <<HANDSFREE_CLASS>>, <<"111e">>, <<HEADSET_CLASS>>, <<GENERIC_AUDIO_CLASS>>,
   <<OTHER_CLASS>>, <<HEADSET_CLASS, HANDSFREE_CLASS>>,
   <<GENERIC_AUDIO_CLASS, HEADSET_CLASS>>, <<OTHER_CLASS, GENERIC_AUDIO_CLASS>>}

\* int(svc["port"]): whatever the peer's record states, 0 included
Ports == 0..MaxPort

\* the sequences over S of length at most n
SeqsUpTo(S, n) == UNION {[1..k -> S] : k \in 0..n}

ServiceRecords ==
  {[classes |-> cs, port |-> p] : cs \in ClassLists, p \in Ports}

\* answers of find_service in the resolution specification
ServiceLists == SeqsUpTo(ServiceRecords, MaxRecords)

\* answers of find_service while the whole object runs
MainServiceLists ==
  {<<>>, <<[classes |-> <<HEADSET_CLASS, HANDSFREE_CLASS>>, port |-> 1]>>}

\* Python truthiness of a channel value (None and 0 are false)
Truthy(c) == c # None /\ Val(c) # 0

\* the two nested for loops of _find_channel from record i, class j on;
\* st carries hsp_channel and generic_channel; ret is TRUE after the return
\* on line 132
RECURSIVE Scan(_, _, _, _)
Scan(svcs, i, j, st) ==
  IF i > Len(svcs) THEN st
  ELSE IF j > Len(svcs[i].classes) THEN Scan(svcs, i + 1, 1, st)
  ELSE LET service_class == Lower(svcs[i].classes[j]) IN
       IF Lower(HANDSFREE_CLASS) = service_class
       THEN [st EXCEPT !.ret = TRUE, !.channel = Some(svcs[i].port)]
       ELSE IF Lower(HEADSET_CLASS) = service_class
       THEN Scan(svcs, i, j + 1, [st EXCEPT !.hsp = Some(svcs[i].port)])
       ELSE IF Lower(GENERIC_AUDIO_CLASS) = service_class
       THEN Scan(svcs, i, j + 1, [st EXCEPT !.generic = Some(svcs[i].port)])
       ELSE Scan(svcs, i, j + 1, st)

\* self.channel after _find_channel, given its value before
FindChannelResultMutKeepOld(svcs, old) ==
  LET st == Scan(svcs, 1, 1, [ret |-> FALSE, channel |-> old, hsp |-> None, generic |-> None]) IN
  IF st.ret THEN st.channel
  ELSE IF Truthy(st.hsp) THEN st.hsp
  ELSE IF Truthy(st.generic) THEN st.generic
  ELSE old
FindChannelResult(svcs, old) ==
  LET st == Scan(svcs, 1, 1, [ret |-> FALSE, channel |-> old, hsp |-> None, generic |-> None]) IN
  IF st.ret THEN st.channel
  ELSE IF Truthy(st.hsp) THEN st.hsp
  ELSE st.generic

(***************************************************************************)
(* State.                                                                  *)
(***************************************************************************)
VARIABLES
  pt,            \* self.pt: TRUE = the Thread object, FALSE = None
  wpc,           \* position of the worker thread
  channel,       \* self.channel: None or <<port>>
  services,      \* local 'services' of _find_channel (empty once it is gone)
  hfp,           \* self.hfp: "None", or a handle to an "open" / "closed" socket
  audio,         \* self.audio: None or <<id of an audio socket>>
  sco_payload,   \* self.sco_payload: None while the attribute is not set, or <<n>>
  socks,         \* audio sockets: id -> [st, mtu]
  leaked,        \* audio sockets no longer referenced and never closed
  newsock,       \* local 'audio' of _connect_audio (0 = none)
  aret,          \* where _connect_audio was called from
  graceElapsed,  \* audio_time < time.time()
  sevice_notice, \* local of _parse_channel
  data,          \* local 'data' of _parse_channel: None or <<chunk received>>
  tosend,        \* frames the selected branch has still to send
  sentLog,       \* frames sent since the last receive
  attempts,      \* results of the _connect_audio calls of the current loop iteration
  fbCheck,       \* outcome of lines 86-87 in the current loop iteration
  apc,           \* position of the application thread (read / write / is_connected)
  afmt,          \* its 'format' argument
  adata,         \* its 'data' argument
  data_8s8m,     \* local of read / write
  sent,          \* local of write
  frames,        \* frames handed to audio.send by the current write
  accepted,      \* byte counts audio.send returned in the current write
  ares,          \* result of the call that has just ended: what it returned, or
                 \* the exception that left it
  asock,         \* socket a blocked recv is using (0 = none)
  asize,         \* buffer size handed to that recv
  lastUse,       \* validity of the session the last recv / send was made on
  beep,          \* arguments and locals of a running beep call
  cpc,           \* position of the thread calling close
  t,             \* local 't' of close
  closeCalls,    \* close() calls started
  closeReturned  \* close() calls that returned normally

wvars == <<pt, wpc, channel, services, hfp, audio, sco_payload, socks, leaked,
           newsock, aret, graceElapsed, sevice_notice, data, tosend, sentLog,
           attempts, fbCheck>>
avars == <<apc, afmt, adata, data_8s8m, sent, frames, accepted, ares, asock, asize, lastUse,
           beep>>
cvars == <<cpc, t, closeCalls, closeReturned>>
vars == <<wvars, avars, cvars>>

MaxSocks == 3
SockIds == 1..MaxSocks
FreeSock == [st |-> "free", mtu |-> 0]

\* MTU values getsockopt(SOL_SCO, SCO_OPTIONS) reports here: from one below
\* the header size to MtuSpan above it (payload sizes -1 .. MtuSpan)
Mtus == (SCO_HEADERS_SIZE - 1)..(SCO_HEADERS_SIZE + MtuSpan)

\* ids not referenced by the object or by a thread
Unreferenced(s) == audio # Some(s) /\ s # newsock /\ s # asock

\* the id a new socket object gets: the first one nobody holds
FreshSock ==
  CHOOSE s \in SockIds :
    /\ socks[s].st \in {"free", "closed"} /\ Unreferenced(s)
    /\ \A r \in SockIds : (socks[r].st \in {"free", "closed"} /\ Unreferenced(r)) => s <= r

InSession == wpc \in {"p_loop", "p_read", "p_send", "p_cmer", "p_fallback",
                      "a_connect", "a_mtu", "a_payload"}

Init ==
  /\ pt = TRUE
  /\ wpc = "w_loop"
  /\ channel = None
  /\ services = <<>>
  /\ hfp = "None"
  /\ audio = None
  /\ sco_payload = None
  /\ socks = [s \in SockIds |-> FreeSock]
  /\ leaked = 0
  /\ newsock = 0
  /\ aret = "none"
  /\ graceElapsed = FALSE
  /\ sevice_notice = FALSE
  /\ data = None
  /\ tosend = <<>>
  /\ sentLog = <<>>
  /\ attempts = <<>>
  /\ fbCheck = "none"
  /\ apc = "idle"
  /\ afmt = AUDIO_8KHZ_SIGNED_8BIT_MONO
  /\ adata = <<>>
  /\ data_8s8m = <<>>
  /\ sent = 0
  /\ frames = <<>>
  /\ accepted = <<>>
  /\ ares = [op |-> "none"]
  /\ asock = 0
  /\ asize = 0
  /\ lastUse = [op |-> "none"]
  /\ beep = [on |-> FALSE]
  /\ cpc = "idle"
  /\ t = FALSE
  /\ closeCalls = 0
  /\ closeReturned = 0

(***************************************************************************)
(* The worker thread: _worker_loop.                                        *)
(***************************************************************************)
\* line 43: while self.pt
WorkerLoop ==
  /\ wpc = "w_loop"
  /\ wpc' = IF pt THEN "w_find" ELSE "w_done"
  /\ UNCHANGED <<pt, channel, services, hfp, audio, sco_payload, socks, leaked,
                 newsock, aret, graceElapsed, sevice_notice, data, tosend,
                 sentLog, attempts, fbCheck>>
  /\ UNCHANGED <<avars, cvars>>

\* lines 44-45: self._find_channel(); if not self.channel
FindChannel(svcs) ==
  /\ wpc = "w_find"
  /\ services' = svcs
  /\ channel' = FindChannelResult(svcs, channel)
  /\ wpc' = IF Truthy(channel') THEN "w_connect_sl" ELSE "w_sleep_nochan"
  /\ UNCHANGED <<pt, hfp, audio, sco_payload, socks, leaked, newsock, aret,
                 graceElapsed, sevice_notice, data, tosend, sentLog, attempts,
                 fbCheck>>
  /\ UNCHANGED <<avars, cvars>>

\* lines 46-47, 51-52 and 57: time.sleep(self.HFP_TIMEOUT) returns
\* (the answer of find_service is no longer referenced)
Sleep ==
  /\ wpc \in {"w_sleep_nochan", "w_sleep_nohfp", "w_sleep_exc"}
  /\ wpc' = IF wpc = "w_sleep_exc" THEN "cl_audio" ELSE "w_loop"
  /\ services' = <<>>
  /\ UNCHANGED <<pt, channel, hfp, audio, sco_payload, socks, leaked,
                 newsock, aret, graceElapsed, sevice_notice, data, tosend,
                 sentLog, attempts, fbCheck>>
  /\ UNCHANGED <<avars, cvars>>

\* lines 49-50 and 93-103: _connect_service_level; if not self.hfp
ConnectServiceLevel(ok) ==
  /\ wpc = "w_connect_sl"
  /\ IF ok
     THEN hfp' = "open" /\ wpc' = "p_start"
     ELSE hfp' = hfp /\ wpc' = "w_sleep_nohfp"
  /\ services' = <<>>
  /\ UNCHANGED <<pt, channel, audio, sco_payload, socks, leaked,
                 newsock, aret, graceElapsed, sevice_notice, data, tosend,
                 sentLog, attempts, fbCheck>>
  /\ UNCHANGED <<avars, cvars>>

\* _parse_channel is left (return or exception): its locals are gone
LeaveParse ==
  /\ data' = None
  /\ tosend' = <<>>
  /\ sentLog' = <<>>
  /\ attempts' = <<>>
  /\ fbCheck' = "none"
  /\ graceElapsed' = FALSE
  /\ sevice_notice' = FALSE
  /\ aret' = "none"

\* lines 61-62: audio_time = time.time() + 10.0; sevice_notice = True
ParseStart ==
  /\ wpc = "p_start"
  /\ graceElapsed' = FALSE
  /\ sevice_notice' = TRUE
  /\ data' = None
  /\ tosend' = <<>>
  /\ sentLog' = <<>>
  /\ wpc' = "p_loop"
  /\ UNCHANGED <<pt, channel, services, hfp, audio, sco_payload, socks, leaked,
                 newsock, aret, attempts, fbCheck>>
  /\ UNCHANGED <<avars, cvars>>

\* the clock passes audio_time
Tick ==
  /\ InSession
  /\ ~graceElapsed
  /\ graceElapsed' = TRUE
  /\ UNCHANGED <<pt, wpc, channel, services, hfp, audio, sco_payload, socks,
                 leaked, newsock, aret, sevice_notice, data, tosend, sentLog,
                 attempts, fbCheck>>
  /\ UNCHANGED <<avars, cvars>>

\* line 63: while self.pt (a normal return leads to line 58)
ParseLoop ==
  /\ wpc = "p_loop"
  /\ IF pt
     THEN /\ wpc' = "p_read"
          /\ attempts' = <<>>
          /\ fbCheck' = "none"
          /\ UNCHANGED <<aret, graceElapsed, sevice_notice, data, tosend, sentLog>>
     ELSE /\ wpc' = "cl_audio"
          /\ LeaveParse
  /\ UNCHANGED <<pt, channel, services, hfp, audio, sco_payload, socks, leaked,
                 newsock>>
  /\ UNCHANGED <<avars, cvars>>

\* lines 64-66 and 142-150: data = self._read_at(), then the branch is selected.
\* res.kind is "timeout", "error" (any other BluetoothError) or "data" (res.d
\* is the chunk hfp.recv returned)
ReadAt(res) ==
  /\ wpc = "p_read"
  /\ IF res.kind = "error"
     THEN \* re-raised on line 149, caught on line 55
          wpc' = "w_sleep_exc" /\ LeaveParse
     ELSE IF res.kind = "data" /\ ~Utf8Valid(res.d)
     THEN \* d.decode('utf8') raises UnicodeDecodeError: nothing catches it
          wpc' = "w_dead" /\ LeaveParse
     ELSE /\ sentLog' = <<>>
          /\ IF res.kind = "timeout"
             THEN data' = None /\ tosend' = <<>> /\ wpc' = "p_fallback"
             ELSE IF res.d = <<>>
             THEN data' = Some(res.d) /\ tosend' = <<>> /\ wpc' = "p_fallback"
             ELSE /\ data' = Some(res.d)
                  /\ tosend' = BranchFrames(BranchOf(res.d))
                  /\ wpc' = "p_send"
          /\ UNCHANGED <<aret, graceElapsed, sevice_notice, attempts, fbCheck>>
  /\ UNCHANGED <<pt, channel, services, hfp, audio, sco_payload, socks, leaked,
                 newsock>>
  /\ UNCHANGED <<avars, cvars>>

\* lines 152-154: self.hfp.send(frame) for the next frame of the branch
Send(ok) ==
  /\ wpc = "p_send"
  /\ IF ok
     THEN /\ sentLog' = Append(sentLog, Head(tosend))
          /\ tosend' = Tail(tosend)
          /\ wpc' = IF Tail(tosend) # <<>> THEN "p_send"
                    ELSE IF BranchOf(Val(data)) = "CMER" THEN "p_cmer"
                    ELSE "p_fallback"
          /\ UNCHANGED <<aret, graceElapsed, sevice_notice, data, attempts, fbCheck>>
     ELSE \* BluetoothError from hfp.send, caught on line 55
          wpc' = "w_sleep_exc" /\ LeaveParse
  /\ UNCHANGED <<pt, channel, services, hfp, audio, sco_payload, socks, leaked,
                 newsock>>
  /\ UNCHANGED <<avars, cvars>>

\* lines 78-79: sevice_notice = False; self._connect_audio()
CmerConnect ==
  /\ wpc = "p_cmer"
  /\ sevice_notice' = FALSE
  /\ aret' = "cmer"
  /\ wpc' = "a_connect"
  /\ UNCHANGED <<pt, channel, services, hfp, audio, sco_payload, socks, leaked,
                 newsock, graceElapsed, data, tosend, sentLog, attempts, fbCheck>>
  /\ UNCHANGED <<avars, cvars>>

\* lines 86-91: the fallback test at the end of a loop iteration
FallbackMutNoGrace ==
  /\ wpc = "p_fallback"
  /\ IF audio = None
     THEN /\ fbCheck' = "late"
          /\ sevice_notice' = FALSE
          /\ aret' = "fallback"
          /\ wpc' = "a_connect"
     ELSE /\ fbCheck' = "audio"
          /\ wpc' = "p_loop"
          /\ UNCHANGED <<sevice_notice, aret>>
  /\ UNCHANGED <<pt, channel, services, hfp, audio, sco_payload, socks, leaked,
                 newsock, graceElapsed, data, tosend, sentLog, attempts>>
  /\ UNCHANGED <<avars, cvars>>
FallbackMutNoAudioTest ==
  /\ wpc = "p_fallback"
  /\ IF graceElapsed
     THEN /\ fbCheck' = "late"
          /\ sevice_notice' = FALSE
          /\ aret' = "fallback"
          /\ wpc' = "a_connect"
     ELSE /\ fbCheck' = "early"
          /\ wpc' = "p_loop"
          /\ UNCHANGED <<sevice_notice, aret>>
  /\ UNCHANGED <<pt, channel, services, hfp, audio, sco_payload, socks, leaked,
                 newsock, graceElapsed, data, tosend, sentLog, attempts>>
  /\ UNCHANGED <<avars, cvars>>
Fallback ==
  /\ wpc = "p_fallback"
  /\ IF audio = None
     THEN IF graceElapsed
          THEN /\ fbCheck' = "late"
               /\ sevice_notice' = FALSE
               /\ aret' = "fallback"
               /\ wpc' = "a_connect"
          ELSE /\ fbCheck' = "early"
               /\ wpc' = "p_loop"
               /\ UNCHANGED <<sevice_notice, aret>>
     ELSE /\ fbCheck' = "audio"
          /\ wpc' = "p_loop"
          /\ UNCHANGED <<sevice_notice, aret>>
  /\ UNCHANGED <<pt, channel, services, hfp, audio, sco_payload, socks, leaked,
                 newsock, graceElapsed, data, tosend, sentLog, attempts>>
  /\ UNCHANGED <<avars, cvars>>

\* where _connect_audio returns to
AudioReturn == IF aret = "cmer" THEN "p_fallback" ELSE "p_loop"

\* lines 106-115: create the SCO socket, set BT_VOICE, connect
ConnectAudioMutClearsAudio(ok) ==
  /\ wpc = "a_connect"
  /\ attempts' = Append(attempts, ok)
  /\ IF ok
     THEN /\ socks' = [socks EXCEPT ![FreshSock] = [st |-> "connected", mtu |-> 0]]
          /\ newsock' = FreshSock
          /\ wpc' = "a_mtu"
          /\ UNCHANGED audio
     ELSE /\ socks' = [socks EXCEPT ![FreshSock] = [st |-> "closed", mtu |-> 0]]
          /\ newsock' = 0
          /\ wpc' = AudioReturn
          /\ audio' = None
  /\ UNCHANGED <<pt, channel, services, hfp, sco_payload, leaked, aret,
                 graceElapsed, sevice_notice, data, tosend, sentLog, fbCheck>>
  /\ UNCHANGED <<avars, cvars>>
ConnectAudio(ok) ==
  /\ wpc = "a_connect"
  /\ attempts' = Append(attempts, ok)
  /\ IF ok
     THEN /\ socks' = [socks EXCEPT ![FreshSock] = [st |-> "connected", mtu |-> 0]]
          /\ newsock' = FreshSock
          /\ wpc' = "a_mtu"
     ELSE /\ socks' = [socks EXCEPT ![FreshSock] = [st |-> "closed", mtu |-> 0]]
          /\ newsock' = 0
          /\ wpc' = AudioReturn
  /\ UNCHANGED <<pt, channel, services, hfp, audio, sco_payload, leaked, aret,
                 graceElapsed, sevice_notice, data, tosend, sentLog, fbCheck>>
  /\ UNCHANGED <<avars, cvars>>

\* the socket self.audio held is dropped without close() when nobody else holds it
Dropped(old) ==
  /\ old # None
  /\ socks[Val(old)].st = "connected"
  /\ asock # Val(old)

\* lines 116-118: mtu = getsockopt(...); self.audio = audio
AudioAssign(m) ==
  /\ wpc = "a_mtu"
  /\ audio' = Some(newsock)
  /\ IF Dropped(audio)
     THEN /\ socks' = [socks EXCEPT ![newsock].mtu = m, ![Val(audio)] = FreeSock]
          /\ leaked' = IF leaked < MaxLeaked THEN leaked + 1 ELSE leaked
     ELSE /\ socks' = [socks EXCEPT ![newsock].mtu = m]
          /\ leaked' = leaked
  /\ wpc' = "a_payload"
  /\ UNCHANGED <<pt, channel, services, hfp, sco_payload, newsock, aret,
                 graceElapsed, sevice_notice, data, tosend, sentLog, attempts,
                 fbCheck>>
  /\ UNCHANGED <<avars, cvars>>

\* line 119: self.sco_payload = mtu - SCO_HEADERS_SIZE
PayloadOf(m) == m - SCO_HEADERS_SIZE

AudioPayload ==
  /\ wpc = "a_payload"
  /\ sco_payload' = Some(PayloadOf(socks[newsock].mtu))
  /\ newsock' = 0
  /\ wpc' = AudioReturn
  /\ UNCHANGED <<pt, channel, services, hfp, audio, socks, leaked, aret,
                 graceElapsed, sevice_notice, data, tosend, sentLog, attempts,
                 fbCheck>>
  /\ UNCHANGED <<avars, cvars>>

(***************************************************************************)
(* _cleanup, run by the worker (line 58) and by close (line 177).          *)
(***************************************************************************)
\* lines 166-167: if self.audio: self.audio.close()
CleanupAudioClose ==
  /\ socks' = IF audio # None
              THEN [socks EXCEPT ![Val(audio)].st = "closed"]
              ELSE socks
  /\ UNCHANGED <<hfp, audio>>

\* lines 168-170: if self.hfp: self.hfp.close(); self.hfp = None
CleanupHfp ==
  /\ hfp' = "None"
  /\ UNCHANGED <<socks, audio>>

\* line 171: self.audio = None (the closed socket object goes with its last
\* reference)
CleanupAudioNone ==
  /\ audio' = None
  /\ socks' = IF audio # None /\ socks[Val(audio)].st = "closed" /\ asock # Val(audio)
              THEN [socks EXCEPT ![Val(audio)] = FreeSock]
              ELSE socks
  /\ UNCHANGED hfp

WorkerCleanup ==
  /\ \/ wpc = "cl_audio" /\ CleanupAudioClose /\ wpc' = "cl_hfp"
     \/ wpc = "cl_hfp" /\ CleanupHfp /\ wpc' = "cl_none"
     \/ wpc = "cl_none" /\ CleanupAudioNone /\ wpc' = "w_loop"
  /\ UNCHANGED <<pt, channel, services, sco_payload, leaked, newsock, aret,
                 graceElapsed, sevice_notice, data, tosend, sentLog, attempts,
                 fbCheck>>
  /\ UNCHANGED <<avars, cvars>>

\* what hfp.recv(1024) can do
RecvResults(chunks) ==
  {[kind |-> "timeout"], [kind |-> "error"]} \cup {[kind |-> "data", d |-> c] : c \in chunks}

\* the answers the environment can give where a call is pending: S when c
\* holds, none otherwise
When(c, S) == IF c THEN S ELSE {}

\* every step of the worker thread, the environment's answers drawn from the
\* given sets
Worker(svcLists, chunks, mtus) ==
  \/ WorkerLoop
  \/ \E svcs \in When(wpc = "w_find", svcLists) : FindChannel(svcs)
  \/ Sleep
  \/ \E ok \in BOOLEAN : ConnectServiceLevel(ok)
  \/ ParseStart
  \/ ParseLoop
  \/ \E res \in When(wpc = "p_read", RecvResults(chunks)) : ReadAt(res)
  \/ \E ok \in BOOLEAN : Send(ok)
  \/ CmerConnect
  \/ Fallback
  \/ \E ok \in BOOLEAN : ConnectAudio(ok)
  \/ \E m \in mtus : AudioAssign(m)
  \/ AudioPayload
  \/ WorkerCleanup

(***************************************************************************)
(* The control session alone: the worker and the clock, with every chunk.  *)
(***************************************************************************)
NextAT == Worker(MainServiceLists, Chunks, Mtus) \/ Tick

SpecAT == Init /\ [][NextAT]_vars

(***************************************************************************)
(* Sample formats (struct.pack / struct.unpack_from, round).               *)
(***************************************************************************)
\* struct.unpack '<h' of the bytes lo, hi
Int16LE(lo, hi) ==
  LET u == lo + 256 * hi IN IF u >= 32768 THEN u - 65536 ELSE u

\* struct.pack '<h' of a value in -32768..32767
Pack16LE(x) ==
  LET u == IF x < 0 THEN x + 65536 ELSE x IN <<u % 256, u \div 256>>

\* Python 3 round(n / d) for d > 0: to nearest, ties to the even integer
PyRound(n, d) ==
  LET q == n \div d
      r == n - q * d
  IN IF 2 * r < d THEN q
     ELSE IF 2 * r > d THEN q + 1
     ELSE IF q % 2 = 0 THEN q ELSE q + 1

\* lines 196-203 of read: each received byte becomes two 16 bit samples
RECURSIVE UpsampleMutNoScale(_)
UpsampleMutNoScale(bs) ==
  IF bs = <<>> THEN <<>>
  ELSE LET b == Head(bs)
           v == IF b > 127 THEN b - 256 ELSE b
       IN Pack16LE(v) \o Pack16LE(v) \o UpsampleMutNoScale(Tail(bs))

RECURSIVE Upsample(_)
Upsample(bs) ==
  IF bs = <<>> THEN <<>>
  ELSE LET b == Head(bs)
           v == (IF b > 127 THEN b - 256 ELSE b) * 256
       IN Pack16LE(v) \o Pack16LE(v) \o Upsample(Tail(bs))

\* lines 220-224 of write from offset i (0-based) on; err is TRUE when
\* struct.unpack_from or struct.pack raises struct.error
RECURSIVE Downsample(_, _, _)
Downsample(d, i, out) ==
  IF i >= Len(d) THEN [err |-> FALSE, out |-> out]
  ELSE IF Len(d) - i < 4 THEN [err |-> TRUE, out |-> out]
  ELSE LET val1 == Int16LE(d[i + 1], d[i + 2])
           val2 == Int16LE(d[i + 3], d[i + 4])
           val == PyRound(val1 + val2, 512)
       IN IF val < -128 \/ val > 127 THEN [err |-> TRUE, out |-> out]
          ELSE Downsample(d, i + 4, Append(out, IF val < 0 THEN val + 256 ELSE val))

\* d[a:b] of Python for a >= 0 (b may be negative or beyond the end)
PySlice(d, a, b) ==
  LET e == IF b < 0 THEN (IF b + Len(d) < 0 THEN 0 ELSE b + Len(d))
           ELSE IF b > Len(d) THEN Len(d) ELSE b
  IN IF a >= e THEN <<>> ELSE SubSeq(d, a + 1, e)

\* bytes([0] * n): empty for n <= 0
Zeros(n) == [i \in 1..n |-> 0]

\* lines 227-229: the frame cut at offset 'sent' for payload size p
FrameAtMutNoPad(d, off, p) == PySlice(d, off, off + p)
FrameAt(d, off, p) ==
  LET ts == PySlice(d, off, off + p)
  IN IF Len(ts) < p THEN ts \o Zeros(p - Len(ts)) ELSE ts

\* byte counts audio.send(ts) can return when it does not fail
SendReturns(ts) == IF ts = <<>> THEN {0} ELSE 1..Len(ts)

(***************************************************************************)
(* The application thread: is_connected, read, write.                      *)
(***************************************************************************)
\* the session a recv / send is made on: is its socket open, and is
\* sco_payload the size negotiated for that socket; err: the transport call
\* raised BluetoothError
UseOf(op, err) ==
  IF audio = None \/ sco_payload = None
  THEN [op |-> op, err |-> err, open |-> FALSE, payload_ok |-> FALSE]
  ELSE [op |-> op, err |-> err,
        open |-> socks[Val(audio)].st = "connected",
        payload_ok |-> Val(sco_payload) = PayloadOf(socks[Val(audio)].mtu)]

\* lines 179-183
IsConnected ==
  /\ apc = "idle"
  /\ ares' = [op |-> "is_connected", exc |-> "none", ok |-> (audio # None)]
  /\ apc' = "ret"
  /\ UNCHANGED <<afmt, adata, data_8s8m, sent, frames, accepted, asock, asize, lastUse>>
  /\ UNCHANGED <<wvars, cvars, beep>>

\* lines 189-190: read(format) is called
ReadCall(fmt) ==
  /\ apc = "idle"
  /\ afmt' = fmt
  /\ IF audio = None
     THEN ares' = [op |-> "read", exc |-> "none", val |-> None] /\ apc' = "ret"
     ELSE ares' = [op |-> "none"] /\ apc' = "r_recv"
  /\ UNCHANGED <<adata, data_8s8m, sent, frames, accepted, asock, asize, lastUse>>
  /\ UNCHANGED <<wvars, cvars, beep>>

\* line 192: self.audio and self.sco_payload are read again and recv is entered
ReadRecv ==
  /\ apc = "r_recv"
  /\ lastUse' = UseOf("read", FALSE)
  /\ IF audio = None \/ sco_payload = None
     THEN \* None has no recv and, before line 119 first runs, the object has no
          \* sco_payload: AttributeError, which line 204 does not catch
          /\ ares' = [op |-> "read", exc |-> "AttributeError"]
          /\ apc' = "ret"
          /\ UNCHANGED <<asock, asize>>
     ELSE /\ asock' = Val(audio)
          /\ asize' = Val(sco_payload)
          /\ apc' = "r_blocked"
          /\ UNCHANGED ares
  /\ UNCHANGED <<afmt, adata, data_8s8m, sent, frames, accepted>>
  /\ UNCHANGED <<wvars, cvars, beep>>

\* what audio.recv(n) can do on a connected socket
AudioRecvResults(bytes, n) ==
  {[kind |-> "error"]}
    \cup {[kind |-> "data", d |-> b] : b \in {x \in bytes : Len(x) <= n}}

\* lines 192-205: recv returns or raises; the bytes are converted and returned
ReadReturn(res) ==
  /\ apc = "r_blocked"
  /\ IF socks[asock].st # "connected" \/ res.kind = "error"
     THEN \* BluetoothError, caught on line 204
          /\ ares' = [op |-> "read", exc |-> "none", val |-> None]
          /\ data_8s8m' = <<>>
          /\ lastUse' = [lastUse EXCEPT !.err = TRUE]
     ELSE /\ data_8s8m' = res.d
          /\ ares' = [op |-> "read", exc |-> "none",
                      val |-> Some(IF afmt = AUDIO_8KHZ_SIGNED_8BIT_MONO
                                   THEN res.d ELSE Upsample(res.d))]
          /\ UNCHANGED lastUse
  /\ apc' = "ret"
  /\ asock' = 0
  /\ asize' = 0
  \* the recv held the last reference to the socket object
  /\ IF audio # Some(asock) /\ newsock # asock
     THEN IF socks[asock].st = "connected"
          THEN /\ socks' = [socks EXCEPT ![asock] = FreeSock]
               /\ leaked' = IF leaked < MaxLeaked THEN leaked + 1 ELSE leaked
          ELSE /\ socks' = [socks EXCEPT ![asock] = FreeSock]
               /\ leaked' = leaked
     ELSE UNCHANGED <<socks, leaked>>
  /\ UNCHANGED <<afmt, adata, sent, frames, accepted>>
  /\ UNCHANGED <<pt, wpc, channel, services, hfp, audio, sco_payload, newsock,
                 aret, graceElapsed, sevice_notice, data, tosend, sentLog,
                 attempts, fbCheck>>
  /\ UNCHANGED <<cvars, beep>>

\* lines 213-225: write(data, format) is called; the data is converted
WriteCall(d, fmt) ==
  /\ apc = "idle"
  /\ afmt' = fmt
  /\ adata' = d
  /\ frames' = <<>>
  /\ accepted' = <<>>
  /\ sent' = 0
  /\ IF audio = None
     THEN /\ ares' = [op |-> "write", exc |-> "none", ok |-> FALSE]
          /\ apc' = "ret"
          /\ data_8s8m' = <<>>
     ELSE IF fmt = AUDIO_8KHZ_SIGNED_8BIT_MONO
     THEN /\ ares' = [op |-> "none"]
          /\ apc' = "wr_loop"
          /\ data_8s8m' = d
     ELSE IF Downsample(d, 0, <<>>).err
     THEN \* struct.error: not a BluetoothError, so line 232 does not catch it
          /\ ares' = [op |-> "write", exc |-> "struct.error"]
          /\ apc' = "ret"
          /\ data_8s8m' = <<>>
     ELSE /\ ares' = [op |-> "none"]
          /\ apc' = "wr_loop"
          /\ data_8s8m' = Downsample(d, 0, <<>>).out
  /\ UNCHANGED <<asock, asize, lastUse>>
  /\ UNCHANGED <<wvars, cvars, beep>>

\* lines 226-233: one pass of the while loop.  res.kind is "error" (audio.send
\* raises BluetoothError) or "sent" (it returns res.n)
WriteLoop(res) ==
  /\ apc = "wr_loop"
  /\ IF sent >= Len(data_8s8m)
     THEN \* line 231
          /\ ares' = [op |-> "write", exc |-> "none", ok |-> TRUE]
          /\ apc' = "ret"
          /\ UNCHANGED <<sent, frames, accepted, lastUse>>
     ELSE IF audio = None \/ sco_payload = None
     THEN \* the object has no sco_payload yet (line 227) or None has no send
          \* (line 230): AttributeError, which line 232 does not catch
          /\ lastUse' = UseOf("write", FALSE)
          /\ ares' = [op |-> "write", exc |-> "AttributeError"]
          /\ apc' = "ret"
          /\ UNCHANGED <<sent, frames, accepted>>
     ELSE IF socks[Val(audio)].st # "connected" \/ res.kind = "error"
     THEN \* BluetoothError, caught on line 232
          /\ lastUse' = UseOf("write", TRUE)
          /\ ares' = [op |-> "write", exc |-> "none", ok |-> FALSE]
          /\ apc' = "ret"
          /\ UNCHANGED <<sent, frames, accepted>>
     ELSE /\ Len(frames) < MaxFrames
          /\ res.n \in SendReturns(FrameAt(data_8s8m, sent, Val(sco_payload)))
          /\ lastUse' = UseOf("write", FALSE)
          /\ frames' = Append(frames, FrameAt(data_8s8m, sent, Val(sco_payload)))
          /\ accepted' = Append(accepted, res.n)
          /\ sent' = sent + res.n
          /\ UNCHANGED <<apc, ares>>
  /\ UNCHANGED <<afmt, adata, data_8s8m, asock, asize>>
  /\ UNCHANGED <<wvars, cvars, beep>>

\* the call has returned (or raised) to the application, which takes the
\* result; the frame of the call is gone
ApiDone ==
  /\ apc = "ret"
  /\ apc' = "idle"
  /\ afmt' = AUDIO_8KHZ_SIGNED_8BIT_MONO
  /\ adata' = <<>>
  /\ data_8s8m' = <<>>
  /\ sent' = 0
  /\ frames' = <<>>
  /\ accepted' = <<>>
  /\ ares' = [op |-> "none"]
  /\ lastUse' = [op |-> "none"]
  /\ beep' = [on |-> FALSE]
  /\ UNCHANGED <<asock, asize>>
  /\ UNCHANGED <<wvars, cvars>>

\* line 244 for the default amplitude 0.5: the values
\* int(32767.0 * 0.5 * math.sin(2.0 * math.pi * float(k) / period)) for
\* k = 0 .. period - 1, for the periods the frequencies of BeepFreqs give
HalfSine(period) ==
  CASE period = 1 -> <<0>>
    [] period = 2 -> <<0, 0>>
    [] period = 4 -> <<0, 16383, 0, -16383>>
    [] period = 8 -> <<0, 11584, 16383, 11584, 0, -11584, -16383, -11584>>

\* lines 242-245: 'snd', length samples packed as '<h'
Snd(length, period) ==
  [i \in 1..(2 * length) |->
     Pack16LE(HalfSine(period)[(((i - 1) \div 2) % period) + 1])[((i - 1) % 2) + 1]]

\* lines 235-246: beep(length_ms, frequency) is called; int() of a positive
\* quotient is its integer part.  'i % period' raises ZeroDivisionError when
\* period is 0; otherwise write(snd) is entered with the default format
\* (lines 207, 213-218, 225)
BeepCall(length_ms, frequency) ==
  LET period == 8000 \div frequency
      length == (8000 * length_ms) \div 1000
  IN /\ apc = "idle"
     /\ beep' = [on |-> TRUE, length_ms |-> length_ms, frequency |-> frequency,
                 period |-> period, length |-> length]
     /\ IF length > 0 /\ period = 0
        THEN /\ ares' = [op |-> "beep", exc |-> "ZeroDivisionError"]
             /\ apc' = "ret"
             /\ UNCHANGED <<afmt, adata, data_8s8m, sent, frames, accepted>>
        ELSE /\ afmt' = AUDIO_8KHZ_SIGNED_8BIT_MONO
             /\ adata' = Snd(length, period)
             /\ frames' = <<>>
             /\ accepted' = <<>>
             /\ sent' = 0
             /\ IF audio = None
                THEN /\ ares' = [op |-> "write", exc |-> "none", ok |-> FALSE]
                     /\ apc' = "ret"
                     /\ data_8s8m' = <<>>
                ELSE /\ ares' = [op |-> "none"]
                     /\ apc' = "wr_loop"
                     /\ data_8s8m' = Snd(length, period)
     /\ UNCHANGED <<asock, asize, lastUse>>
     /\ UNCHANGED <<wvars, cvars>>

\* what audio.send can do for frames of up to n bytes
AudioSendResults(n) ==
  {[kind |-> "error"]} \cup {[kind |-> "sent", n |-> k] : k \in 0..n}

\* every step of the application thread, arguments and transport answers
\* drawn from the given sets
Api(payloads, fmts, bytes) ==
  \/ IsConnected
  \/ \E fmt \in fmts : ReadCall(fmt)
  \/ ReadRecv
  \/ \E res \in AudioRecvResults(bytes, asize) : ReadReturn(res)
  \/ \E d \in When(apc = "idle", payloads), fmt \in fmts : WriteCall(d, fmt)
  \/ \E res \in AudioSendResults(MtuSpan) : WriteLoop(res)
  \/ ApiDone

(***************************************************************************)
(* The thread calling close.                                               *)
(***************************************************************************)
\* lines 174-175: t = self.pt; self.pt = None
CloseCall ==
  /\ cpc = "idle"
  /\ closeCalls < MaxCloseCalls
  /\ closeCalls' = closeCalls + 1
  /\ t' = pt
  /\ pt' = FALSE
  /\ cpc' = "c_join"
  /\ UNCHANGED <<wpc, channel, services, hfp, audio, sco_payload, socks, leaked,
                 newsock, aret, graceElapsed, sevice_notice, data, tosend,
                 sentLog, attempts, fbCheck>>
  /\ UNCHANGED <<avars, closeReturned>>

\* the worker thread has ended (returned, or died of an exception)
WorkerEnded == wpc \in {"w_done", "w_dead"}

\* line 176: t.join()
CloseJoinMutNoWait ==
  /\ cpc = "c_join"
  /\ cpc' = IF t THEN "cl_audio" ELSE "c_raised"
  /\ UNCHANGED <<t, closeCalls, closeReturned>>
  /\ UNCHANGED <<wvars, avars>>
CloseJoin ==
  /\ cpc = "c_join"
  /\ IF t
     THEN /\ WorkerEnded
          /\ cpc' = "cl_audio"
     ELSE \* None has no join: AttributeError leaves close
          cpc' = "c_raised"
  /\ UNCHANGED <<t, closeCalls, closeReturned>>
  /\ UNCHANGED <<wvars, avars>>

\* line 177: self._cleanup(), then close returns
CloseCleanup ==
  /\ \/ cpc = "cl_audio" /\ CleanupAudioClose /\ cpc' = "cl_hfp"
          /\ UNCHANGED closeReturned
     \/ cpc = "cl_hfp" /\ CleanupHfp /\ cpc' = "cl_none"
          /\ UNCHANGED closeReturned
     \/ cpc = "cl_none" /\ CleanupAudioNone /\ cpc' = "idle"
          /\ closeReturned' = closeReturned + 1
  /\ UNCHANGED <<pt, wpc, channel, services, sco_payload, leaked, newsock, aret,
                 graceElapsed, sevice_notice, data, tosend, sentLog, attempts,
                 fbCheck>>
  /\ UNCHANGED <<avars, t, closeCalls>>

\* the exception that left close reaches the application
CloseRaised ==
  /\ cpc = "c_raised"
  /\ cpc' = "idle"
  /\ UNCHANGED <<t, closeCalls, closeReturned>>
  /\ UNCHANGED <<wvars, avars>>

Close == CloseCall \/ CloseJoin \/ CloseCleanup \/ CloseRaised

(***************************************************************************)
(* The whole object: worker, clock, application thread and close.          *)
(***************************************************************************)
ByteSamples == {0, 7, 200}

\* payloads handed to write and byte strings received while all threads run
MainPayloads == SeqsUpTo({7}, MaxLenMain)
MainFormats == {AUDIO_8KHZ_SIGNED_8BIT_MONO}
MainRecv == {<<>>, <<200>>}

\* MTU values reported while all threads run: payload sizes 0 and 1
MainMtus == {SCO_HEADERS_SIZE, SCO_HEADERS_SIZE + 1}

WorkerNext == Worker(MainServiceLists, MainChunks, MainMtus)
ApiNext == Api(MainPayloads, MainFormats, MainRecv)

Next == WorkerNext \/ Tick \/ ApiNext \/ Close

Spec == Init /\ [][Next]_vars

(***************************************************************************)
(* close against the worker and a reading application thread, with         *)
(* scheduling.  Every blocking call of the worker returns (hfp.recv has a  *)
(* 1.0 s timeout, sleep lasts 1.0 s, a connect succeeds or fails) and the  *)
(* threads are scheduled: a step the worker or a started close() can take  *)
(* is eventually taken.  Nothing is assumed of the application thread.     *)
(***************************************************************************)
ReadNext ==
  \/ IsConnected
  \/ \E fmt \in MainFormats : ReadCall(fmt)
  \/ ReadRecv
  \/ \E res \in AudioRecvResults(MainRecv, asize) : ReadReturn(res)
  \/ ApiDone

NextClose == WorkerNext \/ Tick \/ ReadNext \/ Close

FairSpec ==
  Init /\ [][NextClose]_vars /\ WF_vars(WorkerNext) /\ WF_vars(Close /\ cpc # "idle")

(***************************************************************************)
(* Channel resolution alone: the worker resolves, fails to connect (or     *)
(* finds nothing), sleeps and resolves again, for every answer of          *)
(* find_service.                                                           *)
(***************************************************************************)
NextFind ==
  \/ WorkerLoop
  \/ \E svcs \in When(wpc = "w_find", ServiceLists) : FindChannel(svcs)
  \/ Sleep
  \/ ConnectServiceLevel(FALSE)

SpecFind == Init /\ [][NextFind]_vars

(***************************************************************************)
(* write alone, on an established audio session: the worker waits in       *)
(* hfp.recv after AT+CMER= was answered and the audio socket connected.    *)
(***************************************************************************)
Payloads == SeqsUpTo(ByteSamples, MaxLen)

InitSession(mtus) ==
  \E m \in mtus :
    /\ pt = TRUE
    /\ wpc = "p_read"
    /\ channel = Some(1)
    /\ services = <<>>
    /\ hfp = "open"
    /\ audio = Some(1)
    /\ sco_payload = Some(PayloadOf(m))
    /\ socks = [s \in SockIds |-> IF s = 1 THEN [st |-> "connected", mtu |-> m] ELSE FreeSock]
    /\ leaked = 0
    /\ newsock = 0
    /\ aret = "cmer"
    /\ graceElapsed = FALSE
    /\ sevice_notice = FALSE
    /\ data = Some(CmdCMER)
    /\ tosend = <<>>
    /\ sentLog = <<SendAt(RSP_OK)>>
    /\ attempts = <<>>
    /\ fbCheck = "none"
    /\ apc = "idle"
    /\ afmt = AUDIO_8KHZ_SIGNED_8BIT_MONO
    /\ adata = <<>>
    /\ data_8s8m = <<>>
    /\ sent = 0
    /\ frames = <<>>
    /\ accepted = <<>>
    /\ ares = [op |-> "none"]
    /\ asock = 0
    /\ asize = 0
    /\ lastUse = [op |-> "none"]
    /\ beep = [on |-> FALSE]
    /\ cpc = "idle"
    /\ t = FALSE
    /\ closeCalls = 0
    /\ closeReturned = 0

InitWrite == InitSession((SCO_HEADERS_SIZE + 1)..(SCO_HEADERS_SIZE + MtuSpan))

NextWrite ==
  \/ \E d \in When(apc = "idle", Payloads) : WriteCall(d, AUDIO_8KHZ_SIGNED_8BIT_MONO)
  \/ \E res \in AudioSendResults(MtuSpan) : WriteLoop(res)
  \/ ApiDone

SpecWrite == InitWrite /\ [][NextWrite]_vars

\* write alone, on an audio session of any MTU getsockopt can report
InitWriteAny == InitSession(Mtus)

SpecWriteAny == InitWriteAny /\ [][NextWrite]_vars

(***************************************************************************)
(* The sample-format conversions of read and write, on an established      *)
(* audio session: read in both formats, write in the extended format.      *)
(***************************************************************************)
\* byte values at the ends and the middle of the range: the 16-bit samples
\* built from them include 32767, -32768 and the ties 256 and 384
ConvBytes == {0, 1, 127, 128, 255}

\* 4-byte groups (two little-endian 16-bit samples) for the longer payloads
ConvGroups ==
  { <<255, 127, 255, 127>>, <<0, 128, 0, 128>>, <<0, 1, 0, 0>>, <<128, 1, 128, 1>> }

ConvPayloads ==
  SeqsUpTo(ConvBytes, MaxLenConv)
    \cup {g \o h : g \in ConvGroups, h \in ConvGroups}
    \cup {g \o h \o <<b>> : g \in ConvGroups, h \in ConvGroups, b \in {0, 255}}

ConvFormats == {AUDIO_8KHZ_SIGNED_8BIT_MONO, AUDIO_16KHZ_SIGNED_16BIT_LE_MONO}

ConvRecv == SeqsUpTo(ConvBytes, MtuSpan)

NextConv ==
  \/ \E fmt \in ConvFormats : ReadCall(fmt)
  \/ ReadRecv
  \/ \E res \in When(apc = "r_blocked", AudioRecvResults(ConvRecv, asize)) : ReadReturn(res)
  \/ \E d \in When(apc = "idle", ConvPayloads) :
       WriteCall(d, AUDIO_16KHZ_SIGNED_16BIT_LE_MONO)
  \/ \E res \in AudioSendResults(MtuSpan) : WriteLoop(res)
  \/ ApiDone

SpecConv == InitWrite /\ [][NextConv]_vars

(***************************************************************************)
(* beep alone, on an established audio session with a payload size of 32   *)
(* or 48 bytes; every send takes 16, 32 or 48 bytes of the frame.          *)
(***************************************************************************)
BeepFreqs == {1000, 2000, 3000, 4000, 8000, 9000}

BeepMtus == {SCO_HEADERS_SIZE + 32, SCO_HEADERS_SIZE + 48}

BeepSendResults ==
  {[kind |-> "error"]} \cup {[kind |-> "sent", n |-> k] : k \in {16, 32, 48}}

InitBeep == InitSession(BeepMtus)

NextBeep ==
  \/ \E length_ms \in When(apc = "idle", 1..MaxBeepMs), frequency \in BeepFreqs :
       BeepCall(length_ms, frequency)
  \/ \E res \in BeepSendResults : WriteLoop(res)
  \/ ApiDone

SpecBeep == InitBeep /\ [][NextBeep]_vars

(***************************************************************************)
(* Properties.                                                             *)
(***************************************************************************)
HasClass(r, cls) == \E j \in 1..Len(r.classes) : Lower(r.classes[j]) = Lower(cls)

PortsOf(svcs, cls) == {Some(svcs[i].port) : i \in {k \in 1..Len(svcs) : HasClass(svcs[k], cls)}}

JustResolved == wpc \in {"w_connect_sl", "w_sleep_nochan"}

\* C9 as stated: right after channel resolution the channel is the port of a
\* Handsfree record if the answer holds one, else the port of a Headset record
\* if it holds one, else the port of a GenericAudio record if it holds one,
\* else no channel.
C9_Original ==
  JustResolved =>
    IF PortsOf(services, HANDSFREE_CLASS) # {}
    THEN channel \in PortsOf(services, HANDSFREE_CLASS)
    ELSE IF PortsOf(services, HEADSET_CLASS) # {}
    THEN channel \in PortsOf(services, HEADSET_CLASS)
    ELSE IF PortsOf(services, GENERIC_AUDIO_CLASS) # {}
    THEN channel \in PortsOf(services, GENERIC_AUDIO_CLASS)
    ELSE channel = None

IndicesOf(svcs, cls) == {k \in 1..Len(svcs) : HasClass(svcs[k], cls)}

First(S) == CHOOSE k \in S : \A m \in S : k <= m

Last(S) == CHOOSE k \in S : \A m \in S : m <= k

\* C9 amended: right after channel resolution the channel is the port of the
\* first Handsfree record if the answer holds one; else the port of the last
\* Headset record if it holds one and that port is not 0; else the port of the
\* last GenericAudio record if it holds one; else no channel.  Nothing of the
\* channel resolved by an earlier iteration remains.
C9_ChannelPriority ==
  JustResolved =>
    LET hf == IndicesOf(services, HANDSFREE_CLASS)
        hs == IndicesOf(services, HEADSET_CLASS)
        ga == IndicesOf(services, GENERIC_AUDIO_CLASS)
    IN IF hf # {} THEN channel = Some(services[First(hf)].port)
       ELSE IF hs # {} /\ services[Last(hs)].port # 0
       THEN channel = Some(services[Last(hs)].port)
       ELSE IF ga # {} THEN channel = Some(services[Last(ga)].port)
       ELSE channel = None

\* a Headset record on port 1 comes before a Handsfree record on port 2, and
\* port 2 is resolved
C9_Witness ==
  /\ JustResolved
  /\ Len(services) = 2
  /\ services[1] = [classes |-> <<HEADSET_CLASS>>, port |-> 1]
  /\ services[2] = [classes |-> <<HANDSFREE_CLASS>>, port |-> 2]
  /\ channel = Some(2)

Ceil(n, p) == (n + p - 1) \div p

RECURSIVE Flatten(_)
Flatten(fs) == IF fs = <<>> THEN <<>> ELSE Head(fs) \o Flatten(Tail(fs))

WriteReturned == apc = "ret" /\ ares.op = "write" /\ ares.exc = "none"

\* the payload size of the established session write runs on
P == Val(sco_payload)

\* C10 as stated: whenever a native-format write returns True, it sent exactly
\* ceil(n/p) frames of p bytes each whose concatenation is the payload
\* followed by zero bytes; and a write in which a send failed returns False.
C10_Original ==
  (WriteReturned /\ afmt = AUDIO_8KHZ_SIGNED_8BIT_MONO /\ P > 0) =>
    /\ ares.ok =>
         /\ Len(frames) = Ceil(Len(adata), P)
         /\ \A i \in 1..Len(frames) : Len(frames[i]) = P
         /\ Flatten(frames) = adata \o Zeros(Ceil(Len(adata), P) * P - Len(adata))
         /\ ~(lastUse.op = "write" /\ lastUse.err)
    /\ (lastUse.op = "write" /\ lastUse.err) => ~ares.ok

\* every send of the write reported the whole frame as sent
AllWhole == \A i \in 1..Len(accepted) : accepted[i] = Len(frames[i])

\* bytes the sends before the i-th reported as sent
RECURSIVE SentBefore(_)
SentBefore(i) == IF i <= 1 THEN 0 ELSE SentBefore(i - 1) + accepted[i - 1]

\* the first accepted[i] bytes of every frame, in order
RECURSIVE AcceptedBytes(_)
AcceptedBytes(i) ==
  IF i = 0 THEN <<>>
  ELSE AcceptedBytes(i - 1) \o SubSeq(frames[i], 1, accepted[i])

\* C10 amended: every frame handed to the transport is exactly p bytes long
\* and holds the payload bytes that follow those the earlier sends reported
\* as sent, then zero bytes; write returns True only if no send failed and
\* then the bytes reported as sent are, in order, the payload followed by
\* fewer than p zero bytes; write returns False if a send failed;
\* when every send reports the whole frame as sent, a write that returns True
\* sent exactly ceil(n/p) frames whose concatenation is the payload followed
\* by zero bytes.
C10_Framing ==
  (apc \in {"wr_loop", "ret"} /\ afmt = AUDIO_8KHZ_SIGNED_8BIT_MONO /\ P > 0) =>
    /\ \A i \in 1..Len(frames) :
         /\ Len(frames[i]) = P
         /\ SentBefore(i) < Len(adata)
         /\ \A j \in 1..P :
              frames[i][j] = IF SentBefore(i) + j <= Len(adata)
                             THEN adata[SentBefore(i) + j] ELSE 0
    /\ WriteReturned =>
         /\ ares.ok => ~(lastUse.op = "write" /\ lastUse.err)
         /\ ares.ok =>
              \E k \in 0..(P - 1) : AcceptedBytes(Len(frames)) = adata \o Zeros(k)
         /\ (lastUse.op = "write" /\ lastUse.err) => ~ares.ok
         /\ (ares.ok /\ AllWhole) =>
              /\ Len(frames) = Ceil(Len(adata), P)
              /\ Flatten(frames) = adata \o Zeros(Ceil(Len(adata), P) * P - Len(adata))

\* three bytes were written with payload size 2: two frames, the second padded
C10_Witness ==
  /\ WriteReturned
  /\ ares.ok
  /\ P = 2
  /\ adata = <<7, 200, 7>>
  /\ AllWhole
  /\ frames = << <<7, 200>>, <<7, 0>> >>

\* the frames of the dispatch table, byte for byte
F_BRSF == <<"\r","\n","+","B","R","S","F",":"," ","0","\r","\n">>
F_CIND_TEST == <<"\r","\n","+","C","I","N","D",":"," ","(","\"","s","e","r","v","i","c","e","\"",",","(","0",",","1",")",")",",","(","\"","c","a","l","l","\"",",","(","0",",","1",")",")","\r","\n">>
F_CIND_READ == <<"\r","\n","+","C","I","N","D",":"," ","1",",","0","\r","\n">>
F_CHLD == <<"\r","\n","+","C","H","L","D",":"," ","0","\r","\n">>
F_OK == <<"\r","\n","O","K","\r","\n">>
F_ERROR == <<"\r","\n","E","R","R","O","R","\r","\n">>

\* the response groups of the rows of the dispatch table that match a chunk;
\* the ERROR group when no row matches
TableGroups(d) ==
  LET rows ==
        (IF Contains(AT_BRSF, d) THEN {<<F_BRSF, F_OK>>} ELSE {})
        \cup (IF d = AT_CIND_TEST THEN {<<F_CIND_TEST, F_OK>>} ELSE {})
        \cup (IF d = AT_CIND_READ THEN {<<F_CIND_READ, F_OK>>} ELSE {})
        \cup (IF Contains(AT_CMER, d) THEN {<<F_OK>>} ELSE {})
        \cup (IF d = AT_CHLD_TEST THEN {<<F_CHLD, F_OK>>} ELSE {})
  IN IF rows = {} THEN {<<F_ERROR>>} ELSE rows

IsPrefix(a, b) == Len(a) <= Len(b) /\ SubSeq(b, 1, Len(a)) = a

\* the dispatch of the last chunk is over and the session goes on
Dispatched == wpc \in {"p_cmer", "p_fallback", "a_connect", "a_mtu", "a_payload",
                       "p_loop", "p_read"}

\* the dispatch table for the chunks the worker dispatches: when the dispatch
\* of a received non-empty chunk is over (so before the next receive), the
\* frames sent since the chunk was received are exactly one response group of
\* the table for that chunk; while they are being sent they are a proper
\* prefix of such a group; nothing is sent for a timeout or an empty chunk
TableFollowed ==
  /\ (Dispatched /\ data # None /\ Val(data) # <<>>) => sentLog \in TableGroups(Val(data))
  /\ (Dispatched /\ (data = None \/ data = Some(<<>>))) => sentLog = <<>>
  /\ wpc = "p_send" =>
       \E g \in TableGroups(Val(data)) : IsPrefix(sentLog, g) /\ Len(sentLog) < Len(g)

\* C7 as stated: every received non-empty chunk is answered with the response
\* group the dispatch table gives for it (ERROR for a chunk that matches no
\* row) and the session continues: no received chunk ends the worker.
C7_DispatchTable ==
  /\ TableFollowed
  /\ wpc # "w_dead"

\* the iteration that received a chunk is over
IterationOver == wpc = "p_loop" /\ data # None

Connected == {s \in SockIds : socks[s].st = "connected"}

\* the worker is outside a control session and outside _cleanup
Supervising == wpc \in {"w_loop", "w_find", "w_connect_sl", "w_sleep_nochan",
                        "w_sleep_nohfp", "p_start", "w_done"}

\* C5 as stated: at most one audio socket is open and connected at a time;
\* every connected audio socket is the current audio handle (or the one
\* _connect_audio is about to assign); no socket was dropped unclosed; and
\* after _cleanup no socket is connected.
C5_NoLeak ==
  /\ Cardinality(Connected) <= 1
  /\ \A s \in Connected : audio = Some(s) \/ newsock = s
  /\ leaked = 0
  /\ Supervising => Connected = {}

\* C6 as stated: once _connect_audio has stored the payload size of the socket
\* it assigned, an audio handle that is not None comes with sco_payload > 0.
C6_PayloadPositive ==
  (audio # None /\ wpc # "a_payload") => (sco_payload # None /\ Val(sco_payload) > 0)

\* C3 as stated: no call of read, write, is_connected or close ends with an
\* exception.
C3_NeverRaises ==
  /\ (apc = "ret" => ares.exc = "none")
  /\ cpc # "c_raised"

\* C4 as stated: every recv / send of a read or write that passed its audio
\* check is made on an open socket, with the payload size negotiated for it.
C4_ValidSession ==
  lastUse.op # "none" => (lastUse.open /\ lastUse.payload_ok)

\* C1 as stated (its safety part): unless close() has been called the worker
\* thread has not ended.
C1_WorkerNeverStops ==
  closeCalls = 0 => ~WorkerEnded

CloseCleaning == cpc \in {"cl_audio", "cl_hfp", "cl_none"}

\* C2: no close() call blocks forever, whatever the worker is doing and also
\* while a read is blocked in recv, and the call that found the worker thread
\* (t is the Thread) returns; _cleanup runs in close only once the worker
\* thread has ended; and in every state after close() has returned hfp and
\* audio are None, so is_connected() is false.
C2_CloseJoins ==
  /\ [](CloseCleaning => WorkerEnded)
  /\ [](closeReturned >= 1 => (hfp = "None" /\ audio = None /\ WorkerEnded))
  /\ ((cpc = "c_join") ~> (cpc = "idle"))
  /\ ((cpc = "c_join" /\ t) ~> (closeReturned >= 1))

\* close() has returned while a read was blocked in recv on the audio socket
C2_Witness ==
  /\ closeReturned >= 1
  /\ apc = "r_blocked"
  /\ hfp = "None"
  /\ audio = None

(***************************************************************************)
(* The sample-format conversions.                                          *)
(***************************************************************************)
\* the k-th complete 4-byte group of d as write converts it (lines 222-223)
GroupVal(d, k) ==
  PyRound(Int16LE(d[4 * k - 3], d[4 * k - 2]) + Int16LE(d[4 * k - 1], d[4 * k]), 512)

Clamp(v) == IF v > 127 THEN 127 ELSE IF v < -128 THEN -128 ELSE v

AsByte(v) == IF v < 0 THEN v + 256 ELSE v

ExtWriteConverted ==
  /\ afmt = AUDIO_16KHZ_SIGNED_16BIT_LE_MONO
  /\ apc \in {"wr_loop", "ret"}

\* C11: a write in the extended format of whole 4-byte groups does not fail
\* in the conversion, and the bytes it hands to the framing loop are, group
\* by group, round((v1 + v2) / 512) clamped to -128..127 (a rounded 128
\* gives 127).
C11_Clamped ==
  (ExtWriteConverted /\ Len(adata) % 4 = 0) =>
    /\ apc = "ret" => ares.exc = "none"
    /\ apc = "wr_loop" =>
         data_8s8m = [k \in 1..(Len(adata) \div 4) |-> AsByte(Clamp(GroupVal(adata, k)))]

C13_ErrorDestroysAudio ==
  (apc = "ret" /\ ares.op \in {"read", "write"} /\ lastUse.op # "none" /\ lastUse.err) =>
    audio = None

\* C14: a write in the extended format whose length is not a multiple of 4
\* converts the complete groups and drops the trailing bytes silently: it
\* does not fail in the conversion.
C14_TrailingDropped ==
  ( /\ ExtWriteConverted
    /\ Len(adata) % 4 # 0
    /\ \A k \in 1..(Len(adata) \div 4) : GroupVal(adata, k) \in -128..127 ) =>
    /\ apc = "ret" => ares.exc = "none"
    /\ apc = "wr_loop" =>
         data_8s8m = [k \in 1..(Len(adata) \div 4) |-> AsByte(GroupVal(adata, k))]

(***************************************************************************)
(* The tone generator.                                                     *)
(***************************************************************************)
\* C15: a beep call of a positive integer duration and frequency does not
\* fail; it generates length = round(8000 * length_ms / 1000) samples with
\* period = round(8000 / frequency), to the nearest integer, and hands the
\* 2 * length bytes to write in the native format, which sends them without
\* downsampling.
C15_BeepRounds ==
  (beep.on /\ apc \in {"wr_loop", "ret"}) =>
    /\ ares.op # "beep"
    /\ beep.length = PyRound(8000 * beep.length_ms, 1000)
    /\ beep.period = PyRound(8000, beep.frequency)
    /\ Len(adata) = 2 * beep.length
    /\ afmt = AUDIO_8KHZ_SIGNED_8BIT_MONO
    /\ apc = "wr_loop" => data_8s8m = adata

(***************************************************************************)
(* Audio connect attempts and the teardown after a control-socket error.   *)
(***************************************************************************)
\* C16: a loop iteration that received a chunk containing AT+CMER=, alone or
\* together with another command such as AT+BRSF=, answered it with OK only
\* and made an audio connect attempt.
C16_CmerAlwaysConnects ==
  (IterationOver /\ Contains(AT_CMER, Val(data))) =>
    /\ sentLog = <<F_OK>>
    /\ attempts # <<>>

\* the chunk of the current loop iteration was dispatched to the AT+CMER=
\* branch and its OK was sent
CmerDispatched ==
  /\ data # None
  /\ Contains(AT_CMER, Val(data))
  /\ sentLog = <<F_OK>>

\* C17: whenever the worker is about to make an audio connect attempt, a
\* chunk containing AT+CMER= has been dispatched or the grace period since
\* the start of the control session has elapsed; and an attempt made from
\* the fallback test is made with the grace period elapsed and no audio
\* session.
C17_AttemptGated ==
  wpc = "a_connect" =>
    /\ CmerDispatched \/ graceElapsed
    /\ aret = "cmer" => CmerDispatched
    /\ aret = "fallback" => (fbCheck = "late" /\ graceElapsed /\ audio = None)

\* a fallback attempt in an iteration whose receive timed out, and one right
\* after the AT+CMER= attempt of the same iteration failed
C17_Witness ==
  /\ wpc = "a_connect"
  /\ aret = "fallback"
  /\ \/ data = None
     \/ CmerDispatched /\ attempts = <<FALSE>>

\* C18: while the worker is in a cooldown sleep or in channel resolution,
\* the control and audio handles are both None, so is_connected() is False.
C18_TornDownInCooldown ==
  wpc \in {"w_sleep_nochan", "w_sleep_nohfp", "w_sleep_exc", "w_find"} =>
    /\ hfp = "None"
    /\ audio = None

\* C19: a _connect_audio call whose connect fails closes the socket it
\* created and connects none, leaves self.audio, self.sco_payload and the
\* control session as they were, and returns into the AT loop.
C19_FailedAttemptFrame ==
  [][ (wpc = "a_connect" /\ attempts' = Append(attempts, FALSE)) =>
        /\ socks'[FreshSock].st = "closed"
        /\ Connected' = Connected
        /\ leaked' = leaked
        /\ audio' = audio
        /\ sco_payload' = sco_payload
        /\ hfp = "open" /\ hfp' = "open"
        /\ pt' = pt
        /\ wpc' = (IF aret = "cmer" THEN "p_fallback" ELSE "p_loop") ]_vars

\* an attempt has just failed while an audio session existed: the session is
\* still there
C19_Witness ==
  /\ wpc = "p_fallback"
  /\ attempts = <<FALSE>>
  /\ audio # None
  /\ sco_payload # None
  /\ hfp = "open"

(***************************************************************************)
(* Termination of write.                                                   *)
(***************************************************************************)
\* C20: every send of the chunking loop that does not fail advances 'sent'
\* by at least one byte, so that a write of n bytes ends after at most n
\* sends, whatever the payload size of the session and whatever the sends
\* return.
C20_WriteTerminates ==
  apc \in {"wr_loop", "ret"} =>
    /\ \A i \in 1..Len(accepted) : accepted[i] >= 1
    /\ Len(frames) <= Len(data_8s8m)

====
